---- MODULE Spec2Model ----
(***************************************************************************)
(* A model of st-penpals: the Reddit fetcher (utils/fetch_penpals.py), the *)
(* loader with its deduplication and its cache (utils/data_loader.py), the *)
(* keyword matcher (streamlit_app.py, utils/text_processing.py) and the    *)
(* fetch life cycle of one Streamlit session (streamlit_app.py).           *)
(*                                                                         *)
(* The module holds eleven specifications over one set of variables; each  *)
(* leaves the variables of the other parts at their idle values:           *)
(*   SpecDedup    filter_deleted_and_deduplicate_users on bounded frames   *)
(*   SpecFetch    fetch_penpals_posts against a paginated listing          *)
(*   SpecFetchAny fetch_penpals_posts against an API that answers freely   *)
(*   SpecLoad     fetch_reddit_data: the cache, _fetch_from_api, the fetch *)
(*   SpecMatch    the filter of display_subreddit_results on sample posts  *)
(*   SpecRecency  filter_posts_by_recency on bounded frames                *)
(*   SpecSort     sort_results on bounded frames                           *)
(*   SpecPage     the pagination of display_subreddit_results              *)
(*   SpecApp      script runs of main() with the cache and a clock         *)
(*   SpecConc     _fetch_from_api run by two sessions of one process       *)
(*   SpecHighlight the filter and the highlighting of one displayed post   *)
(***************************************************************************)
EXTENDS Integers, Sequences, FiniteSets, TLC

VARIABLES
    d_df,          \* the DataFrame handed to filter_deleted_and_deduplicate_users
    d_out,         \* the DataFrame it returns
    d_pc,          \* "input" before the call, "done" after it
    f_total,       \* fetch_penpals_posts: the total_posts argument
    f_listing,     \* number of posts the subreddit's "new" listing holds
    f_token,       \* self.access_token is set
    f_all_posts,   \* all_posts
    f_after,       \* after, the pagination cursor (None = 0)
    f_pc,          \* "while", "break", "done"
    f_log,         \* one record per _fetch_batch call, in order
    f_final,       \* final_posts, the value returned
    a_clock,       \* wall clock, in minutes
    a_cache,       \* st.cache_data of fetch_reddit_data: subreddit -> entry
    a_ss,          \* st.session_state of the session
    a_pc,          \* where the session's script is
    a_click,       \* the button whose click started the running script
    a_interrupt,   \* a rerun was asked for while the script is blocked
    a_df_penpals,  \* handle_fetch_data's local df_penpals
    a_lookup,      \* the fetch_reddit_data calls of the running handle_fetch_data
    a_failed,      \* the last attempt failed and the user has not asked since
    m_posts,       \* subreddit_data, the rows display_subreddit_results filters
    m_keywords,    \* current_keywords
    m_age_range,   \* the age slider's (min_age, max_age)
    m_relevant,    \* relevant_posts after the keyword filter: positions kept
    m_pc,          \* "input" before the filter, "filtered" after it
    s_df,          \* the DataFrame handed to sort_results
    s_option,      \* sort_option
    s_out,         \* the DataFrame it returns
    s_pc,          \* "input" before the call, "done" after it
    p_total,       \* len(relevant_posts) in display_subreddit_results
    p_page,        \* st.session_state[page_key]
    p_radio,       \* the page radio's widget state: the options and the one chosen
    p_stored,      \* current_page as read from session_state by the last run
    p_slice,       \* (start_idx, end_idx) of the page_posts displayed
    p_pc,          \* "run", "rerun" (a script run is due), "shown"
    r_df,          \* the DataFrame handed to filter_posts_by_recency
    r_filter,      \* recency_filter
    r_out,         \* the positions of the rows it keeps
    r_pc,          \* "input" before the call, "done" after it
    l_cache,       \* st.cache_data's entry of fetch_reddit_data for the subreddit
    l_result,      \* what the last call of fetch_reddit_data returned or raised
    l_log,         \* one record per call of fetch_reddit_data, in order
    l_pc,          \* "call", "api", "fetch", "returned", "raised"
    c_cwd,         \* the process's working directory
    c_environ,     \* os.environ holds the credentials load_env wrote
    c_cache,       \* st.cache_data of fetch_reddit_data: subreddit -> stored
    c_pc,          \* per session: where its thread is in _fetch_from_api
    c_subreddit,   \* per session: the subreddit argument of its call
    c_original,    \* per session: _fetch_from_api's local original_cwd
    c_calls,       \* calls of _fetch_from_api begun so far
    h_row,         \* the post: its title and body
    h_keywords,    \* current_keywords
    h_passes,      \* the post stays in relevant_posts
    h_title,       \* highlighted_title of the expander's header
    h_body,        \* what st.markdown shows of the body, and whether highlighted
    h_pc           \* "input", "filtered" or "shown"

dvars == <<d_df, d_out, d_pc>>
fvars == <<f_total, f_listing, f_token, f_all_posts, f_after, f_pc, f_log, f_final>>
avars == <<a_clock, a_cache, a_ss, a_pc, a_click, a_interrupt, a_df_penpals,
           a_lookup, a_failed>>
mvars == <<m_posts, m_keywords, m_age_range, m_relevant, m_pc>>
svars == <<s_df, s_option, s_out, s_pc>>
pvars == <<p_total, p_page, p_radio, p_stored, p_slice, p_pc>>
rvars == <<r_df, r_filter, r_out, r_pc>>
lvars == <<l_cache, l_result, l_log, l_pc>>
cvars == <<c_cwd, c_environ, c_cache, c_pc, c_subreddit, c_original, c_calls>>
hvars == <<h_row, h_keywords, h_passes, h_title, h_body, h_pc>>
vars == <<dvars, fvars, avars, mvars, svars, pvars, rvars, lvars, cvars, hvars>>

\* ------------------------------------------------------------------ bounds
MaxPosts == 3      \* rows of a DataFrame given to the deduplication
MaxTime == 2       \* distinct creation times of those rows
MaxBatch == 2      \* stands for Reddit's 100 posts per request
MaxTotal == 5      \* largest total_posts asked of fetch_penpals_posts
MaxListing == 4    \* most posts a subreddit's listing holds
MaxClock == 21     \* minutes of wall clock the session model runs through
MaxShown == 2      \* rows of the subreddit_data the filter is run on
MaxSorted == 2     \* rows of a DataFrame given to sort_results
MaxRecent == 2     \* rows of a DataFrame given to filter_posts_by_recency
MaxCalls == 2      \* calls of fetch_reddit_data for one subreddit
MaxApiCalls == 3   \* calls of _fetch_from_api by the sessions of a process

\* ----------------------------------------------------------------- helpers
Range(s) == {s[i] : i \in DOMAIN s}

SetMax(S) == CHOOSE x \in S : \A y \in S : y <= x

Min2(a, b) == IF a < b THEN a ELSE b

\* ----------------------------------------------------------------------
\* utils/data_loader.py: filter_deleted_and_deduplicate_users
\* ----------------------------------------------------------------------
Deleted == "[deleted]"

Authors == {Deleted, "alice", "bob"}

\* A row: its id is its position in the input frame; created_time stands for
\* the fixed-width '%Y-%m-%d %H:%M:%S' string, whose order is the order of time.
Columns == [author : Authors, created_time : 1..MaxTime]

DataFrames ==
    UNION { { [i \in 1..n |-> [id |-> i, author |-> f[i].author,
                               created_time |-> f[i].created_time]] :
              f \in [1..n -> Columns] } : n \in 0..MaxPosts }

\* df.sort_values('created_time', ascending=False): pandas sorts with
\* kind='quicksort', which is not stable, so rows of equal created_time may come
\* out in any order.
RECURSIVE SortedOrders(_, _)
SortedOrders(df, S) ==
    IF S = {} THEN {<<>>}
    ELSE UNION { { <<df[i]>> \o t : t \in SortedOrders(df, S \ {i}) } :
                 i \in { k \in S : \A j \in S :
                           df[k].created_time >= df[j].created_time } }

SortValuesDesc(df) == SortedOrders(df, DOMAIN df)

RECURSIVE DropFrom(_, _, _)
DropFrom(s, i, seen) ==
    IF i > Len(s) THEN <<>>
    ELSE IF s[i].author \in seen THEN DropFrom(s, i + 1, seen)
    ELSE <<s[i]>> \o DropFrom(s, i + 1, seen \cup {s[i].author})

RECURSIVE DropFromLast(_, _)
DropFromLast(s, i) ==
    IF i > Len(s) THEN <<>>
    ELSE IF \E j \in (i + 1)..Len(s) : s[j].author = s[i].author
         THEN DropFromLast(s, i + 1)
         ELSE <<s[i]>> \o DropFromLast(s, i + 1)

\* A slip: keep='last', which keeps the oldest row of an author.
DropDuplicatesKeepLast(s) == DropFromLast(s, 1)

\* df.drop_duplicates(subset=['author'], keep='first')
DropDuplicates(s) == DropFrom(s, 1, {})

IsDeleted(row) == row.author = Deleted

IsIdentifiable(row) == row.author # Deleted

\* The frames filter_deleted_and_deduplicate_users can return for df.
FilterDeletedAndDeduplicateUsers(df) ==
    IF Len(df) = 0 THEN {df}
    ELSE UNION {
           SortValuesDesc(DropDuplicates(SelectSeq(df_sorted, IsIdentifiable))
                          \o SelectSeq(df_sorted, IsDeleted))
           : df_sorted \in SortValuesDesc(df) }

DedupIdle == d_df = <<>> /\ d_out = <<>> /\ d_pc = "idle"

DedupInit == d_df \in DataFrames /\ d_out = <<>> /\ d_pc = "input"

Deduplicate ==
    /\ d_pc = "input"
    /\ d_out' \in FilterDeletedAndDeduplicateUsers(d_df)
    /\ d_pc' = "done"
    /\ UNCHANGED d_df
    /\ UNCHANGED <<fvars, avars, mvars, svars, pvars, rvars, lvars, cvars, hvars>>

\* ----------------------------------------------------------------------
\* utils/fetch_penpals.py: RedditPenpalsFetcher.fetch_penpals_posts
\* ----------------------------------------------------------------------
\* The subreddit's "new" listing holds the posts 1..f_listing, newest first. The
\* cursor `after` names the last post of the page before; None is 0.
None == 0

\* What requests.get and the parsing of _fetch_batch can give for (limit, after):
\* a RequestException gives ([], None); a reply gives the page after the cursor
\* and the cursor of the next page, which Reddit leaves null on the last page
\* (and may still set when the page ends exactly at the end of the listing).
FetchBatch(listing, limit, after) ==
    LET first == after + 1
        last  == Min2(after + limit, listing)
        items == [i \in 1..(last - first + 1) |-> after + i]
    IN  { [failed |-> TRUE, items |-> <<>>, next_after |-> None] }
        \cup
        { [failed |-> FALSE, items |-> items, next_after |-> n] :
            n \in IF items = <<>> THEN {None}
                  ELSE IF last = listing THEN {None, last}
                  ELSE {last} }

\* What _fetch_batch can return whatever the API does: ([], None) on a
\* RequestException, else the t3 children of the reply, none, fewer than, as many
\* as or more than asked for, with a null cursor or one it gave before. The loop
\* reads the number of posts and whether the cursor is null, so every post is
\* post 1 and every cursor is 1.
AnyBatch(limit) ==
    { [failed |-> TRUE, items |-> <<>>, next_after |-> None] }
    \cup
    { [failed |-> FALSE, items |-> [i \in 1..n |-> 1], next_after |-> c] :
        n \in 0..(limit + 1), c \in {None, 1} }

\* A slip: every request asks for a whole page.
BatchSizeWholePage(total, collected) == MaxBatch

\* batch_size = min(remaining, 100); the model scales Reddit's 100 to MaxBatch.
BatchSize(total, collected) == Min2(total - collected, MaxBatch)

\* A slip: all_posts[:total_posts - 1]
FinalPostsShort(all_posts, total) ==
    SubSeq(all_posts, 1, Min2(total, Len(all_posts)) - 1)

\* final_posts = all_posts[:total_posts]
FinalPosts(all_posts, total) == SubSeq(all_posts, 1, Min2(total, Len(all_posts)))

\* A slip: sleeping after every batch.
RateLimitSleepAlways(collected, total, next_after) == TRUE

\* if len(all_posts) < total_posts and next_after: time.sleep(rate_limit_delay)
RateLimitSleep(collected, total, next_after) ==
    collected < total /\ next_after # None

FetchIdle ==
    /\ f_total = 0 /\ f_listing = 0 /\ f_token = FALSE /\ f_all_posts = <<>>
    /\ f_after = None /\ f_pc = "idle" /\ f_log = <<>> /\ f_final = <<>>

FetchInit ==
    /\ f_total \in 0..MaxTotal
    /\ f_listing \in 0..MaxListing
    /\ f_token \in BOOLEAN
    /\ f_all_posts = <<>> /\ f_after = None /\ f_pc = "start"
    /\ f_log = <<>> /\ f_final = <<>>

\* fetch_penpals_posts is called with any total_posts; no listing is modelled.
FetchAnyInit ==
    /\ f_total \in 0..MaxTotal
    /\ f_listing = 0
    /\ f_token \in BOOLEAN
    /\ f_all_posts = <<>> /\ f_after = None /\ f_pc = "start"
    /\ f_log = <<>> /\ f_final = <<>>

\* if not self.access_token: return []
FetchBegin ==
    /\ f_pc = "start"
    /\ IF f_token
       THEN f_pc' = "while" /\ UNCHANGED f_final
       ELSE f_pc' = "done" /\ f_final' = <<>>
    /\ UNCHANGED <<f_total, f_listing, f_token, f_all_posts, f_after, f_log>>
    /\ UNCHANGED <<dvars, avars, mvars, svars, pvars, rvars, lvars, cvars, hvars>>

\* One pass of the while loop: one _fetch_batch call, answered by one of
\* `responses`, and what follows it.
FetchLoopWith(responses) ==
    /\ f_pc = "while"
    /\ Len(f_all_posts) < f_total
    /\ \E r \in responses :
          LET all == f_all_posts \o r.items
              entry == [limit |-> BatchSize(f_total, Len(f_all_posts)),
                        after |-> f_after, failed |-> r.failed, items |-> r.items,
                        next_after |-> r.next_after,
                        slept |-> r.items # <<>>
                                  /\ RateLimitSleep(Len(all), f_total, r.next_after)]
          IN  /\ f_log' = Append(f_log, entry)
              /\ IF r.items = <<>>
                 THEN f_pc' = "break" /\ UNCHANGED <<f_all_posts, f_after>>
                 ELSE /\ f_all_posts' = all
                      /\ f_after' = r.next_after
                      /\ f_pc' = "while"
    /\ UNCHANGED <<f_total, f_listing, f_token, f_final>>
    /\ UNCHANGED <<dvars, avars, mvars, svars, pvars, rvars, lvars, cvars, hvars>>

\* The loop against the listing 1..f_listing.
FetchLoop ==
    FetchLoopWith(FetchBatch(f_listing, BatchSize(f_total, Len(f_all_posts)), f_after))

\* The loop against an API that answers as it likes.
FetchLoopAny == FetchLoopWith(AnyBatch(BatchSize(f_total, Len(f_all_posts))))

\* The loop has ended (its condition is false, or break): return final_posts.
FetchReturn ==
    /\ \/ f_pc = "break"
       \/ f_pc = "while" /\ ~(Len(f_all_posts) < f_total)
    /\ f_final' = FinalPosts(f_all_posts, f_total)
    /\ f_pc' = "done"
    /\ UNCHANGED <<f_total, f_listing, f_token, f_all_posts, f_after, f_log>>
    /\ UNCHANGED <<dvars, avars, mvars, svars, pvars, rvars, lvars, cvars, hvars>>

\* ----------------------------------------------------------------------
\* streamlit_app.py: the fetch life cycle of a session, and the cache of
\* utils/data_loader.py: fetch_reddit_data
\* ----------------------------------------------------------------------
Subreddits == {"penpals", "penpalsover30"}

\* Python's None for a time or a dataset. A dataset is named by its fetch_time
\* column (df['fetch_time'] = datetime.now()), in minutes.
NoValue == -1

\* @st.cache_data(ttl=1200): 20 minutes
CacheTTLMinutes == 20

\* timedelta(minutes=3)
FetchTimeoutMinutes == 3

\* The module's session_state defaults; has_fetched_data is read with
\* .get('has_fetched_data', False).
InitialSessionState ==
    [fetched_data_penpals |-> NoValue, fetched_data_penpalsover30 |-> NoValue,
     fetch_requested |-> FALSE, fetch_error |-> "None",
     fetch_start_time |-> NoValue, ui_enabled |-> FALSE,
     has_fetched_data |-> FALSE]

NoLookup == [at |-> NoValue, entry |-> NoValue, hit |-> FALSE, returned |-> NoValue]

NoLookups == [s \in Subreddits |-> NoLookup]

\* A slip: an entry is served for 25 minutes.
CacheEntryValidLonger(entry, now) == entry # NoValue /\ now - entry < CacheTTLMinutes + 5

\* st.cache_data serves an entry until ttl has passed since it was stored.
CacheEntryValid(entry, now) == entry # NoValue /\ now - entry < CacheTTLMinutes

\* "Enable UI if data already exists"
EnableUiIfData(ss) ==
    IF ss.has_fetched_data /\ ~ss.ui_enabled THEN [ss EXCEPT !.ui_enabled = TRUE] ELSE ss

\* create_input_interface: "Auto-fetch logic: trigger fetch when first loading"
CreateInputInterface(ss) ==
    IF ~ss.has_fetched_data /\ ~ss.fetch_requested
    THEN [ss EXCEPT !.fetch_error = "None", !.fetch_requested = TRUE,
                    !.fetch_start_time = NoValue]
    ELSE ss

\* display_results: the error with its Retry Fetch button, which sets
\* fetch_requested and reruns when its click started this run.
RetryClicked(ss, click) == ss.fetch_error # "None" /\ click = "retry"

DisplayResults(ss, click) ==
    IF RetryClicked(ss, click)
    THEN [ss EXCEPT !.fetch_error = "None", !.fetch_requested = TRUE]
    ELSE ss

\* A slip: the except branch marks the data as fetched.
FetchFailedMarksFetched(ss, e) ==
    [ss EXCEPT !.fetch_error = e, !.fetch_requested = FALSE,
               !.fetch_start_time = NoValue, !.ui_enabled = TRUE,
               !.has_fetched_data = TRUE]

\* handle_fetch_data's except branch
FetchFailed(ss, e) ==
    [ss EXCEPT !.fetch_error = e, !.fetch_requested = FALSE,
               !.fetch_start_time = NoValue, !.ui_enabled = TRUE]

\* handle_fetch_data's "Store results in session state"
FetchSucceeded(ss, df_penpals, df_penpalsover30) ==
    [ss EXCEPT !.fetched_data_penpals = df_penpals,
               !.fetched_data_penpalsover30 = df_penpalsover30,
               !.has_fetched_data = TRUE, !.fetch_requested = FALSE,
               !.fetch_error = "None", !.fetch_start_time = NoValue,
               !.ui_enabled = TRUE]

\* handle_fetch_data's timeout branch
FetchTimedOut(ss) ==
    [ss EXCEPT !.fetch_error = "timeout", !.fetch_requested = FALSE,
               !.fetch_start_time = NoValue]

AppIdle ==
    /\ a_clock = 0 /\ a_cache = [s \in Subreddits |-> NoValue]
    /\ a_ss = InitialSessionState /\ a_pc = "off" /\ a_click = "none"
    /\ a_interrupt = FALSE /\ a_df_penpals = NoValue /\ a_lookup = NoLookups
    /\ a_failed = FALSE

\* A session has connected and its first script run is due.
AppInit ==
    /\ a_clock = 0 /\ a_cache = [s \in Subreddits |-> NoValue]
    /\ a_ss = InitialSessionState /\ a_pc = "rerun" /\ a_click = "none"
    /\ a_interrupt = FALSE /\ a_df_penpals = NoValue /\ a_lookup = NoLookups
    /\ a_failed = FALSE

Fetching == {"fetch_penpals", "fetch_penpalsover30"}

\* One run of the script from its top to the call of handle_fetch_data, or, with
\* no fetch requested, through display_results to its end.
RunScript(click) ==
    LET ss1 == CreateInputInterface(EnableUiIfData(a_ss))
    IN  /\ a_lookup' = NoLookups
        /\ a_interrupt' = FALSE
        /\ a_df_penpals' = NoValue
        /\ IF ss1.fetch_requested
           THEN /\ a_ss' = ss1
                /\ a_pc' = "handle_fetch"
                /\ a_click' = click
           ELSE /\ a_ss' = DisplayResults(ss1, click)
                /\ a_pc' = IF RetryClicked(ss1, click) THEN "rerun" ELSE "idle"
                /\ a_click' = "none"
        /\ UNCHANGED <<a_clock, a_cache>>

\* st.rerun(), or the first run of a session: the script runs with no click.
Rerun ==
    /\ a_pc = "rerun"
    /\ RunScript("none")
    /\ UNCHANGED a_failed
    /\ UNCHANGED <<dvars, fvars, mvars, svars, pvars, rvars, lvars, cvars, hvars>>

\* The user changes a widget or reruns the page: the script runs.
UserInteracts ==
    /\ a_pc = "idle"
    /\ RunScript("none")
    /\ UNCHANGED a_failed
    /\ UNCHANGED <<dvars, fvars, mvars, svars, pvars, rvars, lvars, cvars, hvars>>

\* The user clicks Retry Fetch, which the last run rendered under the error.
UserRetry ==
    /\ a_pc = "idle"
    /\ a_ss.fetch_error # "None"
    /\ RunScript("retry")
    /\ a_failed' = FALSE
    /\ UNCHANGED <<dvars, fvars, mvars, svars, pvars, rvars, lvars, cvars, hvars>>

\* The end of handle_fetch_data's try block, both frames in hand.
StoreAndRerun(ss, df_penpals, df_penpalsover30) ==
    /\ a_ss' = FetchSucceeded(ss, df_penpals, df_penpalsover30)
    /\ a_pc' = "rerun"
    /\ a_failed' = FALSE

\* What a call of fetch_reddit_data(subreddit) at the present time finds.
Lookup(subreddit) ==
    LET entry == a_cache[subreddit]
        hit == CacheEntryValid(entry, a_clock)
    IN  [at |-> a_clock, entry |-> entry, hit |-> hit,
         returned |-> IF hit THEN entry ELSE NoValue]

\* fetch_reddit_data("penpalsover30") is called with df_penpals in hand: a valid
\* entry is returned and the try block runs to its end, else the fetch begins.
CallPenpalsOver30(ss, df_penpals, lookup) ==
    LET l == Lookup("penpalsover30")
    IN  /\ a_lookup' = [lookup EXCEPT !["penpalsover30"] = l]
        /\ a_df_penpals' = df_penpals
        /\ IF l.hit
           THEN StoreAndRerun(ss, df_penpals, l.returned)
           ELSE /\ a_pc' = "fetch_penpalsover30"
                /\ a_ss' = ss
                /\ UNCHANGED a_failed

\* handle_fetch_data up to its first network fetch, or to its end.
HandleFetchData ==
    /\ a_pc = "handle_fetch"
    /\ LET start == IF a_ss.fetch_start_time = NoValue THEN a_clock
                    ELSE a_ss.fetch_start_time
           ss1 == [a_ss EXCEPT !.fetch_start_time = start]
           l == Lookup("penpals")
       IN  IF a_clock - start > FetchTimeoutMinutes
           THEN \* return; main goes on to display_results
                /\ a_ss' = DisplayResults(FetchTimedOut(ss1), a_click)
                /\ a_pc' = IF RetryClicked(FetchTimedOut(ss1), a_click)
                           THEN "rerun" ELSE "idle"
                /\ a_failed' = ~RetryClicked(FetchTimedOut(ss1), a_click)
                /\ UNCHANGED <<a_lookup, a_df_penpals>>
           ELSE IF l.hit
                THEN CallPenpalsOver30(ss1, l.returned,
                                       [a_lookup EXCEPT !["penpals"] = l])
                ELSE /\ a_lookup' = [a_lookup EXCEPT !["penpals"] = l]
                     /\ a_ss' = ss1
                     /\ a_pc' = "fetch_penpals"
                     /\ UNCHANGED <<a_df_penpals, a_failed>>
    /\ a_click' = "none"
    /\ UNCHANGED <<a_clock, a_cache, a_interrupt>>
    /\ UNCHANGED <<dvars, fvars, mvars, svars, pvars, rvars, lvars, cvars, hvars>>

\* _fetch_from_api raises (authentication failed, no posts, any other
\* exception): nothing is cached, the except branch records the error and reruns.
NetworkFails ==
    /\ a_pc \in Fetching
    /\ a_ss' = FetchFailed(a_ss, "error")
    /\ a_pc' = "rerun"
    /\ a_failed' = TRUE
    /\ a_interrupt' = FALSE
    /\ UNCHANGED <<a_clock, a_cache, a_click, a_df_penpals, a_lookup>>
    /\ UNCHANGED <<dvars, fvars, mvars, svars, pvars, rvars, lvars, cvars, hvars>>

\* _fetch_from_api returns a frame: it is cached; the script then stops at the
\* st.toast that follows when a rerun was asked for, and goes on otherwise.
NetworkReturns ==
    /\ a_pc \in Fetching
    /\ LET sub == IF a_pc = "fetch_penpals" THEN "penpals" ELSE "penpalsover30"
           df == a_clock
           lookup == [a_lookup EXCEPT ![sub].returned = df]
       IN  /\ a_cache' = [a_cache EXCEPT ![sub] = df]
           /\ IF a_interrupt
              THEN /\ a_pc' = "rerun"
                   /\ a_lookup' = lookup
                   /\ UNCHANGED <<a_ss, a_df_penpals, a_failed>>
              ELSE IF sub = "penpals"
              THEN CallPenpalsOver30(a_ss, df, lookup)
              ELSE /\ a_lookup' = lookup
                   /\ StoreAndRerun(a_ss, a_df_penpals, df)
                   /\ UNCHANGED a_df_penpals
    /\ a_interrupt' = FALSE
    /\ UNCHANGED <<a_clock, a_click>>
    /\ UNCHANGED <<dvars, fvars, mvars, svars, pvars, rvars, lvars, cvars, hvars>>

\* The user interacts with the page while the script is blocked in a fetch.
UserInterrupts ==
    /\ a_pc \in Fetching
    /\ ~a_interrupt
    /\ a_interrupt' = TRUE
    /\ UNCHANGED <<a_clock, a_cache, a_ss, a_pc, a_click, a_df_penpals, a_lookup,
                   a_failed>>
    /\ UNCHANGED <<dvars, fvars, mvars, svars, pvars, rvars, lvars, cvars, hvars>>

\* A minute passes, while the page is at rest or the script is blocked.
Tick ==
    /\ a_pc \in Fetching \cup {"idle"}
    /\ a_clock < MaxClock
    /\ a_clock' = a_clock + 1
    /\ UNCHANGED <<a_cache, a_ss, a_pc, a_click, a_interrupt, a_df_penpals,
                   a_lookup, a_failed>>
    /\ UNCHANGED <<dvars, fvars, mvars, svars, pvars, rvars, lvars, cvars, hvars>>

\* The page is opened anew: a new session, with the process's cache as it is.
NewSession ==
    /\ a_pc = "idle"
    /\ a_ss' = InitialSessionState
    /\ a_pc' = "rerun"
    /\ a_click' = "none"
    /\ a_interrupt' = FALSE
    /\ a_df_penpals' = NoValue
    /\ a_lookup' = NoLookups
    /\ a_failed' = FALSE
    /\ UNCHANGED <<a_clock, a_cache>>
    /\ UNCHANGED <<dvars, fvars, mvars, svars, pvars, rvars, lvars, cvars, hvars>>

\* ----------------------------------------------------------------------
\* streamlit_app.py: display_subreddit_results, the keyword and age filter
\* ----------------------------------------------------------------------
\* A text is the sequence of its characters.
UpperCase ==
    <<"A", "B", "C", "D", "E", "F", "G", "H", "I", "J", "K", "L", "M",
      "N", "O", "P", "Q", "R", "S", "T", "U", "V", "W", "X", "Y", "Z">>

LowerCase ==
    <<"a", "b", "c", "d", "e", "f", "g", "h", "i", "j", "k", "l", "m",
      "n", "o", "p", "q", "r", "s", "t", "u", "v", "w", "x", "y", "z">>

Digits == <<"0", "1", "2", "3", "4", "5", "6", "7", "8", "9">>

\* \w of Python's re
IsWordChar(c) == c \in Range(UpperCase) \cup Range(LowerCase) \cup Range(Digits) \cup {"_"}

\* str.lower(), one character
Lower(c) ==
    IF c \in Range(UpperCase)
    THEN LowerCase[CHOOSE i \in DOMAIN UpperCase : UpperCase[i] = c]
    ELSE c

LowerStr(s) == [i \in DOMAIN s |-> Lower(s[i])]

IsSpace(c) == c = " "

RECURSIVE StripLeft(_)
StripLeft(s) == IF s # <<>> /\ IsSpace(Head(s)) THEN StripLeft(Tail(s)) ELSE s

RECURSIVE StripRight(_)
StripRight(s) ==
    IF s # <<>> /\ IsSpace(s[Len(s)]) THEN StripRight(SubSeq(s, 1, Len(s) - 1)) ELSE s

\* str.strip()
Strip(s) == StripRight(StripLeft(s))

RECURSIVE SplitFrom(_, _)
SplitFrom(s, word) ==
    LET done == IF word = <<>> THEN <<>> ELSE <<word>>
    IN  IF s = <<>> THEN done
        ELSE IF IsSpace(Head(s)) THEN done \o SplitFrom(Tail(s), <<>>)
        ELSE SplitFrom(Tail(s), Append(word, Head(s)))

\* str.split()
Split(s) == SplitFrom(s, <<>>)

RECURSIVE Str(_)
\* str(age) of a non-negative integer
Str(n) == IF n < 10 THEN <<Digits[n + 1]>> ELSE Append(Str(n \div 10), Digits[(n % 10) + 1])

\* create_input_interface: the age keywords of the slider's range
AgeKeywords(min_age, max_age) ==
    IF min_age # 18 \/ max_age # 99
    THEN [i \in 1..(max_age - min_age + 1) |-> Str(min_age + i - 1)]
    ELSE <<>>

stop_words ==
    {<<"a", "n", "d">>, <<"o", "r">>, <<"b", "u", "t">>, <<"i", "n">>,
     <<"o", "n">>, <<"a", "t">>, <<"t", "o">>, <<"f", "o", "r">>,
     <<"o", "f">>, <<"w", "i", "t", "h">>, <<"b", "y">>, <<"i", "s">>,
     <<"a", "r", "e">>, <<"w", "a", "s">>, <<"w", "e", "r", "e">>,
     <<"b", "e">>, <<"a">>, <<"a", "n">>, <<"t", "h", "i", "s">>,
     <<"t", "h", "a", "t">>, <<"i", "t">>, <<"h", "e">>, <<"s", "h", "e">>}

\* "Add exact keyword matches" and "also add individual words"
WordsOfKeywords(keywords) ==
    UNION { LET keyword == Strip(keywords[k])
            IN  IF Len(keyword) >= 2
                THEN {LowerStr(keyword)}
                     \cup {word \in Range(Split(LowerStr(keyword))) : Len(word) >= 2}
                ELSE {}
            : k \in DOMAIN keywords }

\* A slip: the stop words stay among the candidate words.
WithoutStopWordsKept(words) == {word \in words : Len(word) >= 2}

\* "Remove common stop words"
WithoutStopWords(words) == {word \in words : word \notin stop_words /\ Len(word) >= 2}

\* The pattern's literal part, re.escape(word), at position i under re.IGNORECASE
LiteralAt(text, i, word) ==
    /\ i + Len(word) - 1 <= Len(text)
    /\ \A k \in DOMAIN word : Lower(text[i + k - 1]) = Lower(word[k])

\* (?<!\w) before position i
NotAfterWordChar(text, i) == i = 1 \/ ~IsWordChar(text[i - 1])

\* (?!\w) at position i
NotBeforeWordChar(text, i) == i > Len(text) \/ ~IsWordChar(text[i])

\* \b between positions i - 1 and i
WordBoundary(text, i) ==
    (i > 1 /\ IsWordChar(text[i - 1])) # (i <= Len(text) /\ IsWordChar(text[i]))

\* (?:ing|ed|er|s|ly)? : the alternatives, then nothing
Suffixes ==
    <<<<"i", "n", "g">>, <<"e", "d">>, <<"e", "r">>, <<"s">>, <<"l", "y">>, <<>>>>

\* A slip: the pattern of long words without its (?<!\w).
PatternMatchesAtNoLookbehind(text, i, word) ==
    /\ LiteralAt(text, i, word)
    /\ IF Len(word) >= 4
       THEN \E k \in DOMAIN Suffixes :
               /\ LiteralAt(text, i + Len(word), Suffixes[k])
               /\ WordBoundary(text, i + Len(word) + Len(Suffixes[k]))
       ELSE NotBeforeWordChar(text, i + Len(word))

\* The pattern built for word matches text from position i on:
\*   (?<!\w) word (?:ing|ed|er|s|ly)? \b   for len(word) >= 4
\*   (?<!\w) word (?!\w)                   otherwise
PatternMatchesAt(text, i, word) ==
    /\ NotAfterWordChar(text, i)
    /\ LiteralAt(text, i, word)
    /\ IF Len(word) >= 4
       THEN \E k \in DOMAIN Suffixes :
               /\ LiteralAt(text, i + Len(word), Suffixes[k])
               /\ WordBoundary(text, i + Len(word) + Len(Suffixes[k]))
       ELSE NotBeforeWordChar(text, i + Len(word))

\* re.search(pattern, text, flags=re.IGNORECASE)
ReSearch(text, word) == \E i \in 1..Len(text) : PatternMatchesAt(text, i, word)

\* "Check regular keywords in both title and body"
RegularMatch(current_keywords, full_text) ==
    /\ current_keywords # <<>>
    /\ \E word \in WithoutStopWords(WordsOfKeywords(current_keywords)) :
          ReSearch(full_text, word)

\* "Check age keywords in title only"
AgeMatch(age_keywords, title_text) ==
    /\ age_keywords # <<>>
    /\ \E word \in WordsOfKeywords(age_keywords) : ReSearch(title_text, word)

FullText(row) == row.title \o <<" ">> \o row.body

\* A slip: either list is enough when both are given.
HasKeywordMatchEither(row, current_keywords, age_keywords) ==
    \/ RegularMatch(current_keywords, FullText(row))
    \/ AgeMatch(age_keywords, row.title)

\* has_keyword_match(row): the "hard filtering logic"
HasKeywordMatch(row, current_keywords, age_keywords) ==
    LET regular_match == RegularMatch(current_keywords, FullText(row))
        age_match == AgeMatch(age_keywords, row.title)
    IN  IF current_keywords # <<>> /\ age_keywords # <<>>
        THEN regular_match /\ age_match
        ELSE IF age_keywords # <<>> /\ current_keywords = <<>>
        THEN age_match
        ELSE regular_match

\* The rows of subreddit_data that stay in relevant_posts, by position.
RelevantPosts(subreddit_data, current_keywords, age_keywords) ==
    IF current_keywords # <<>> \/ age_keywords # <<>>
    THEN {i \in DOMAIN subreddit_data :
            HasKeywordMatch(subreddit_data[i], current_keywords, age_keywords)}
    ELSE DOMAIN subreddit_data

\* The posts, keyword lists and age ranges the filter is run on.
SamplePosts == {
    [title |-> <<"2", "5", "F", " ", "t", "r", "a", "v", "e", "l", " ", "b", "u", "d", "d", "y">>,
     body |-> <<>>],
    [title |-> <<"t", "r", "a", "v", "e", "l", " ", "b", "u", "d", "d", "y">>,
     body |-> <<>>],
    [title |-> <<"2", "5", "F", " ", "s", "e", "e", "k", "i", "n", "g", " ", "f", "r", "i", "e", "n", "d">>,
     body |-> <<>>],
    [title |-> <<"2", "5", " ", "F", " ", "t", "r", "a", "v", "e", "l">>,
     body |-> <<>>],
    [title |-> <<"m", "e", "e", "t", " ", "a", "t", " ", "n", "o", "o", "n">>,
     body |-> <<>>],
    [title |-> <<"c", "a", "t", " ", "a", "t", "e">>,
     body |-> <<>>],
    [title |-> <<"b", "o", "b", "c", "a", "t", " ", "c", "a", "t", "s">>,
     body |-> <<>>],
    [title |-> <<"h", "e", "l", "l", "o">>,
     body |-> <<"g", "o", "l", "f", "i", "n", "g">>],
    [title |-> <<"h", "e", "l", "l", "o">>,
     body |-> <<"g", "o", "l", "f", "e", "d">>],
    [title |-> <<"h", "e", "l", "l", "o">>,
     body |-> <<"g", "o", "l", "f", "e", "r">>],
    [title |-> <<"h", "e", "l", "l", "o">>,
     body |-> <<"g", "o", "l", "f", "s">>],
    [title |-> <<"h", "e", "l", "l", "o">>,
     body |-> <<"g", "o", "l", "f", "l", "y">>],
    [title |-> <<"h", "e", "l", "l", "o">>,
     body |-> <<"g", "o", "l", "f", "c", "a", "r", "t">>],
    [title |-> <<"h", "e", "l", "l", "o">>,
     body |-> <<"m", "o", "n", "g", "o", "l", "f">>],
    [title |-> <<"G", "O", "L", "F", " ", "d", "a", "y">>,
     body |-> <<>>],
    [title |-> <<"h", "i", " ", "2", "5">>,
     body |-> <<"t", "r", "a", "v", "e", "l", "s">>],
    [title |-> <<"t", "r", "a", "v", "e", "l">>,
     body |-> <<"2", "5">>]}

SampleKeywords == {
    <<>>,
    <<<<"t", "r", "a", "v", "e", "l">>>>,
    <<<<"a", "t">>>>,
    <<<<"c", "a", "t">>>>,
    <<<<"g", "o", "l", "f">>>>,
    <<<<"G", "o", "l", "f">>, <<"a", "t">>>>,
    <<<<"t", "r", "a", "v", "e", "l", " ", "b", "u", "d", "d", "y">>>>,
    <<<<"t", "h", "a", "t">>>>}

SampleAgeRanges == {<<18, 99>>, <<25, 25>>, <<24, 26>>}

MatchIdle ==
    /\ m_posts = <<>> /\ m_keywords = <<>> /\ m_age_range = <<18, 99>>
    /\ m_relevant = {} /\ m_pc = "idle"

MatchInit ==
    /\ m_posts \in UNION {[1..n -> SamplePosts] : n \in 1..MaxShown}
    /\ m_keywords \in SampleKeywords
    /\ m_age_range \in SampleAgeRanges
    /\ m_relevant = {}
    /\ m_pc = "input"

\* display_subreddit_results: "Apply keyword filtering if keywords are provided"
FilterByKeywords ==
    /\ m_pc = "input"
    /\ m_relevant' = RelevantPosts(m_posts, m_keywords,
                                   AgeKeywords(m_age_range[1], m_age_range[2]))
    /\ m_pc' = "filtered"
    /\ UNCHANGED <<m_posts, m_keywords, m_age_range>>
    /\ UNCHANGED <<dvars, fvars, avars, svars, pvars, rvars, lvars, cvars, hvars>>

\* ----------------------------------------------------------------------
\* streamlit_app.py: sort_results
\* ----------------------------------------------------------------------
\* The characters of the sample texts in the order of their code points, which
\* is the order Python compares strings by.
CodePoints ==
    <<" ", "0", "1", "2", "3", "4", "5", "6", "7", "8", "9", "A", "B",
      "C", "D", "E", "F", "G", "H", "I", "J", "K", "L", "M", "N", "O",
      "P", "Q", "R", "S", "T", "U", "V", "W", "X", "Y", "Z", "[", "]",
      "_", "a", "b", "c", "d", "e", "f", "g", "h", "i", "j", "k", "l",
      "m", "n", "o", "p", "q", "r", "s", "t", "u", "v", "w", "x", "y",
      "z">>

Ord(c) == CHOOSE i \in DOMAIN CodePoints : CodePoints[i] = c

\* a <= b for Python strings
RECURSIVE StrLessEq(_, _)
StrLessEq(a, b) ==
    IF a = <<>> THEN TRUE
    ELSE IF b = <<>> THEN FALSE
    ELSE IF Head(a) = Head(b) THEN StrLessEq(Tail(a), Tail(b))
    ELSE Ord(Head(a)) < Ord(Head(b))

\* A missing title (None, NaN): no text.
NaN == <<"NaN">>

\* get_sort_key(title)
GetSortKey(title) ==
    IF title = NaN THEN <<>>
    ELSE LET title_str == Strip(title)
         IN  IF title_str # <<>> /\ Head(title_str) = "[" /\ Len(title_str) > 1
             THEN LowerStr(Tail(title_str))
             ELSE LowerStr(title_str)

\* A slip: ascending=False
KeyOrderDescending(a, b) == StrLessEq(b, a)

\* ascending=True: a may come before b
KeyOrder(a, b) == StrLessEq(a, b)

\* df_copy.sort_values('sort_key', ascending=True, na_position='last'): no key
\* is NaN, and the default kind='quicksort' leaves rows of equal key in any order.
RECURSIVE SortedByKey(_, _)
SortedByKey(df, S) ==
    IF S = {} THEN {<<>>}
    ELSE UNION { { <<df[i]>> \o t : t \in SortedByKey(df, S \ {i}) } :
                 i \in { k \in S : \A j \in S :
                           KeyOrder(GetSortKey(df[k].title), GetSortKey(df[j].title)) } }

\* The frames sort_results can return.
SortResults(df, sort_option) ==
    IF df = <<>> THEN {df}
    ELSE IF sort_option = "Date Posted" THEN SortValuesDesc(df)
    ELSE IF sort_option = "Title Alphabetically" THEN SortedByKey(df, DOMAIN df)
    ELSE {df}

\* The options of the "Sort by:" radio
SortOptions == {"Date Posted", "Title Alphabetically"}

SampleTitles == {
    NaN,
    <<>>,
    <<"[", "2", "5", "F", "]", " ", "h", "e", "l", "l", "o">>,
    <<"A", "p", "p", "l", "e", " ", "s", "e", "e", "k", "s", " ", "f", "r", "i", "e", "n", "d">>,
    <<"b", "a", "n", "a", "n", "a">>,
    <<"[", "C", "a", "t", "]">>}

SortFrames ==
    UNION { { [i \in 1..n |-> [id |-> i, title |-> f[i].title,
                               created_time |-> f[i].created_time]] :
              f \in [1..n -> [title : SampleTitles, created_time : 1..MaxTime]] } :
            n \in 0..MaxSorted }

SortIdle == s_df = <<>> /\ s_option = "Date Posted" /\ s_out = <<>> /\ s_pc = "idle"

SortInit == s_df \in SortFrames /\ s_option \in SortOptions /\ s_out = <<>> /\ s_pc = "input"

\* display_subreddit_results: "Apply sorting"
Sort ==
    /\ s_pc = "input"
    /\ s_out' \in SortResults(s_df, s_option)
    /\ s_pc' = "done"
    /\ UNCHANGED <<s_df, s_option>>
    /\ UNCHANGED <<dvars, fvars, avars, mvars, pvars, rvars, lvars, cvars, hvars>>

\* ----------------------------------------------------------------------
\* streamlit_app.py: display_subreddit_results, the pagination
\* ----------------------------------------------------------------------
posts_per_page == 100

\* max_page = max(0, (total_posts - 1) // posts_per_page)
MaxPageOf(total_posts) ==
    IF total_posts >= 1 THEN (total_posts - 1) \div posts_per_page ELSE 0

\* A slip: the page is left as it is stored.
ClampPageNot(current_page, max_page) == current_page

\* if current_page > max_page: current_page = max_page
ClampPage(current_page, max_page) ==
    IF current_page > max_page THEN max_page ELSE current_page

\* total_pages of create_pagination_controls
TotalPages(total_posts) == (total_posts - 1) \div posts_per_page + 1

\* page_options[i], the text f"{start}-{end}", as the pair it is made of
PageOption(total_posts, i) ==
    <<i * posts_per_page + 1, Min2((i + 1) * posts_per_page, total_posts)>>

PageOptions(total_posts) ==
    [k \in 1..TotalPages(total_posts) |-> PageOption(total_posts, k - 1)]

\* No radio is rendered, and nothing is displayed.
NoRadio == [options |-> <<>>, value |-> <<>>]

NoSlice == [start_idx |-> NoValue, end_idx |-> NoValue]

\* The values st.radio can return: the option at `index` when the widget is new
\* or its options have changed, the option the widget holds when the options
\* are the same; a Streamlit that identifies the widget by its key alone also
\* keeps the held option while it is still among the options.
RadioValues(options, index, radio) ==
    IF radio = NoRadio THEN {options[index + 1]}
    ELSE IF radio.options = options THEN {radio.value}
    ELSE {options[index + 1]} \cup ({radio.value} \cap Range(options))

\* create_pagination_controls: the page indexes it can return
CreatePaginationControls(total_posts, current_page, radio) ==
    IF total_posts <= posts_per_page THEN {current_page}
    ELSE LET page_options == PageOptions(total_posts)
             index == IF current_page < Len(page_options) THEN current_page ELSE 0
         IN  { (CHOOSE k \in DOMAIN page_options : page_options[k] = v) - 1 :
               v \in RadioValues(page_options, index, radio) }

\* Numbers of posts the filters leave
SampleTotals == {0, 1, 100, 101, 250, 300, 600}

PageIdle ==
    /\ p_total = 0 /\ p_page = 0 /\ p_radio = NoRadio /\ p_stored = 0
    /\ p_slice = NoSlice /\ p_pc = "idle"

PageInit ==
    /\ p_total \in SampleTotals /\ p_page = 0 /\ p_radio = NoRadio /\ p_stored = 0
    /\ p_slice = NoSlice /\ p_pc = "run"

\* One run of display_subreddit_results from "Get current page" on.
DisplayPage ==
    /\ p_pc \in {"run", "rerun"}
    /\ p_stored' = p_page
    /\ IF p_total = 0
       THEN \* relevant_posts.empty: the warning, and return
            /\ p_slice' = NoSlice /\ p_radio' = NoRadio /\ p_pc' = "shown"
            /\ UNCHANGED p_page
       ELSE LET current_page == ClampPage(p_page, MaxPageOf(p_total))
            IN  \E new_page \in CreatePaginationControls(p_total, current_page, p_radio) :
                   /\ p_radio' = IF p_total <= posts_per_page THEN NoRadio
                                 ELSE [options |-> PageOptions(p_total),
                                       value |-> PageOption(p_total, new_page)]
                   /\ IF new_page # current_page
                      THEN \* st.rerun()
                           /\ p_page' = new_page
                           /\ p_slice' = NoSlice
                           /\ p_pc' = "rerun"
                      ELSE /\ p_page' = current_page
                           /\ p_slice' = [start_idx |-> current_page * posts_per_page,
                                          end_idx |-> Min2(current_page * posts_per_page
                                                           + posts_per_page, p_total)]
                           /\ p_pc' = "shown"
    /\ UNCHANGED p_total
    /\ UNCHANGED <<dvars, fvars, avars, mvars, svars, rvars, lvars, cvars, hvars>>

\* The user picks another page on the radio: the script runs.
SelectPage ==
    /\ p_pc = "shown"
    /\ p_radio # NoRadio
    /\ \E v \in Range(p_radio.options) \ {p_radio.value} :
          p_radio' = [p_radio EXCEPT !.value = v]
    /\ p_pc' = "run"
    /\ UNCHANGED <<p_total, p_page, p_stored, p_slice>>
    /\ UNCHANGED <<dvars, fvars, avars, mvars, svars, rvars, lvars, cvars, hvars>>

\* The user changes the keywords or a filter, or new data arrives: another
\* number of posts passes the filters, and the script runs.
ChangeFilters ==
    /\ p_pc = "shown"
    /\ p_total' \in SampleTotals \ {p_total}
    /\ p_pc' = "run"
    /\ UNCHANGED <<p_page, p_radio, p_stored, p_slice>>
    /\ UNCHANGED <<dvars, fvars, avars, mvars, svars, rvars, lvars, cvars, hvars>>

\* ----------------------------------------------------------------------
\* streamlit_app.py: filter_posts_by_recency
\* ----------------------------------------------------------------------
\* A value of the created_time or created_utc column: None (or ''), NaN, a value
\* that does not parse ("bad"), or one that parses to a time diff.days days
\* before now ("date").
DateField(kind, days) == [kind |-> kind, days |-> days]

NoDate == {DateField("None", 0), DateField("NaN", 0), DateField("bad", 0)}

\* Python's truth value of a field: None, '' and 0 are false, NaN is true.
Truthy(field) == field.kind # "None"

\* pd.notna
NotNa(field) == field.kind \notin {"None", "NaN"}

\* get_post_datetime(row): None, or the date, as its diff.days
GetPostDatetime(row) ==
    LET date_field == IF Truthy(row.created_time) THEN row.created_time
                      ELSE row.created_utc
    IN  IF NotNa(date_field) /\ date_field.kind = "date" THEN date_field
        ELSE DateField("None", 0)

\* A slip: a post with no date is left out.
IsWithinTimeframeClosed(row, recency_filter) ==
    LET post_date == GetPostDatetime(row)
    IN  IF post_date.kind = "None" THEN FALSE
        ELSE IF recency_filter = "Today" THEN post_date.days = 0
        ELSE IF recency_filter = "Last week" THEN post_date.days <= 7
        ELSE IF recency_filter = "Last month" THEN post_date.days <= 30
        ELSE TRUE

\* is_within_timeframe(row)
IsWithinTimeframe(row, recency_filter) ==
    LET post_date == GetPostDatetime(row)
    IN  IF post_date.kind = "None" THEN TRUE
        ELSE IF recency_filter = "Today" THEN post_date.days = 0
        ELSE IF recency_filter = "Last week" THEN post_date.days <= 7
        ELSE IF recency_filter = "Last month" THEN post_date.days <= 30
        ELSE TRUE

\* filter_posts_by_recency(df, recency_filter): the positions of the rows kept
FilterPostsByRecency(df, recency_filter) ==
    IF df = <<>> THEN {}
    ELSE {i \in DOMAIN df : IsWithinTimeframe(df[i], recency_filter)}

\* The options of the "Filter by date posted:" slider
RecencyOptions == {"Today", "Last week", "Last month", "No filter"}

\* diff.days of the sample dates; -1 is a post dated after now
SampleDays == {-1, 0, 7, 8, 30, 31}

RecencyRows ==
    [created_time : NoDate \cup {DateField("date", d) : d \in SampleDays},
     created_utc : NoDate \cup {DateField("date", 0), DateField("date", 31)}]

RecencyIdle == r_df = <<>> /\ r_filter = "No filter" /\ r_out = {} /\ r_pc = "idle"

RecencyInit ==
    /\ r_df \in UNION {[1..n -> RecencyRows] : n \in 0..MaxRecent}
    /\ r_filter \in RecencyOptions
    /\ r_out = {}
    /\ r_pc = "input"

\* display_subreddit_results: "Apply recency filter"
FilterRecency ==
    /\ r_pc = "input"
    /\ r_out' = FilterPostsByRecency(r_df, r_filter)
    /\ r_pc' = "done"
    /\ UNCHANGED <<r_df, r_filter>>
    /\ UNCHANGED <<dvars, fvars, avars, mvars, svars, pvars, lvars, cvars, hvars>>

\* ----------------------------------------------------------------------
\* utils/data_loader.py: fetch_reddit_data and _fetch_from_api, one subreddit
\* ----------------------------------------------------------------------
\* total_posts=1000 of _fetch_from_api, on the scale of MaxBatch
ApiTotalPosts == MaxTotal

NoFrame == <<>>

NoEntry == [stored |-> FALSE, df |-> NoFrame]

NoResult == [kind |-> "none", error |-> "", df |-> NoFrame]

Raised(e) == [kind |-> "error", error |-> e, df |-> NoFrame]

Returned(df) == [kind |-> "frame", error |-> "", df |-> df]

\* pd.DataFrame(posts): the listing's post i was created before post i - 1, and
\* authors[i] wrote it.
DataFrameOf(posts, listing, authors) ==
    [k \in DOMAIN posts |-> [id |-> posts[k], author |-> authors[posts[k]],
                             created_time |-> listing + 1 - posts[k]]]

\* A slip: an attempt that authenticate() refused goes on.
AuthenticationFailedNever(outcome) == FALSE

\* if not fetcher.authenticate(): raise Exception("Failed to authenticate ...")
AuthenticationFailed(outcome) == outcome = "failed"

\* A slip: an empty list of posts is made a frame.
NoPostsFetchedNever(posts) == FALSE

\* if not posts: raise Exception("No posts fetched")
NoPostsFetched(posts) == posts = <<>>

LoadIdle == l_cache = NoEntry /\ l_result = NoResult /\ l_log = <<>> /\ l_pc = "idle"

LoadInit == l_cache = NoEntry /\ l_result = NoResult /\ l_log = <<>> /\ l_pc = "call"

\* The last call's record
LastCall == l_log[Len(l_log)]

LogLast(field, value) ==
    [l_log EXCEPT ![Len(l_log)] = [@ EXCEPT ![field] = value]]

\* fetch_reddit_data(subreddit) is called: st.cache_data returns the entry it
\* holds, or calls _fetch_from_api, which makes a fetcher for a subreddit whose
\* listing holds some number of posts.
FetchRedditData ==
    /\ l_pc \in {"call", "returned", "raised"}
    /\ Len(l_log) < MaxCalls
    /\ IF l_cache.stored
       THEN /\ l_result' = Returned(l_cache.df)
            /\ l_log' = Append(l_log, [hit |-> TRUE, auth |-> "not called",
                                        outcome |-> "returned"])
            /\ l_pc' = "returned"
            /\ UNCHANGED fvars
       ELSE /\ l_result' = NoResult
            /\ l_log' = Append(l_log, [hit |-> FALSE, auth |-> "not called",
                                        outcome |-> "pending"])
            /\ l_pc' = "api"
            /\ f_total' = ApiTotalPosts
            /\ f_listing' \in 0..MaxListing
            /\ f_token' = FALSE /\ f_all_posts' = <<>> /\ f_after' = None
            /\ f_pc' = "idle" /\ f_log' = <<>> /\ f_final' = <<>>
    /\ UNCHANGED l_cache
    /\ UNCHANGED <<dvars, avars, mvars, svars, pvars, rvars, cvars, hvars>>

\* _fetch_from_api up to its call of fetch_penpals_posts: RedditPenpalsFetcher()
\* raises when the credentials are not set, authenticate() is refused or
\* stores the access token.
FromApiBegin ==
    /\ l_pc = "api"
    /\ \E outcome \in {"no credentials", "failed", "ok"} :
          IF outcome = "no credentials"
          THEN /\ l_result' = Raised("CLIENT_ID and CLIENT_SECRET must be set")
               /\ l_log' = LogLast("outcome", "raised")
               /\ l_pc' = "raised"
               /\ UNCHANGED <<f_token, f_pc>>
          ELSE IF AuthenticationFailed(outcome)
          THEN /\ l_result' = Raised("Failed to authenticate")
               /\ l_log' = [LogLast("auth", outcome) EXCEPT
                              ![Len(l_log)].outcome = "raised"]
               /\ l_pc' = "raised"
               /\ UNCHANGED <<f_token, f_pc>>
          ELSE /\ l_log' = LogLast("auth", outcome)
               /\ f_token' = (outcome = "ok")
               /\ f_pc' = "start"
               /\ l_pc' = "fetch"
               /\ UNCHANGED l_result
    /\ UNCHANGED <<l_cache, f_total, f_listing, f_all_posts, f_after, f_log, f_final>>
    /\ UNCHANGED <<dvars, avars, mvars, svars, pvars, rvars, cvars, hvars>>

\* _fetch_from_api from the return of fetch_penpals_posts on: no posts raise,
\* posts are made a frame and deduplicated, and st.cache_data stores the frame
\* returned.
FromApiEnd ==
    /\ l_pc = "fetch"
    /\ f_pc = "done"
    /\ IF NoPostsFetched(f_final)
       THEN /\ l_result' = Raised("No posts fetched")
            /\ l_log' = LogLast("outcome", "raised")
            /\ l_pc' = "raised"
            /\ UNCHANGED l_cache
       ELSE \E authors \in [1..f_listing -> Authors] :
               \E df \in FilterDeletedAndDeduplicateUsers(
                            DataFrameOf(f_final, f_listing, authors)) :
                  /\ l_result' = Returned(df)
                  /\ l_cache' = [stored |-> TRUE, df |-> df]
                  /\ l_log' = LogLast("outcome", "returned")
                  /\ l_pc' = "returned"
    /\ UNCHANGED fvars
    /\ UNCHANGED <<dvars, avars, mvars, svars, pvars, rvars, cvars, hvars>>

\* The ttl of the entry passes.
CacheExpires ==
    /\ l_pc \in {"returned", "raised"}
    /\ l_cache.stored
    /\ l_cache' = NoEntry
    /\ UNCHANGED <<l_result, l_log, l_pc>>
    /\ UNCHANGED <<dvars, fvars, avars, mvars, svars, pvars, rvars, cvars, hvars>>

\* ----------------------------------------------------------------------
\* utils/data_loader.py: _fetch_from_api run by the script threads of two
\* sessions of one process
\* ----------------------------------------------------------------------
Sessions == {"s1", "s2"}

\* The directory the app was started in, and os.path.dirname of data_loader.py.
LaunchDir == "launch_dir"

ScriptDir == "script_dir"

ConcIdle ==
    /\ c_cwd = LaunchDir /\ c_environ = FALSE
    /\ c_cache = [k \in Subreddits |-> FALSE]
    /\ c_pc = [s \in Sessions |-> "off"]
    /\ c_subreddit = [s \in Sessions |-> "penpals"]
    /\ c_original = [s \in Sessions |-> LaunchDir]
    /\ c_calls = 0

ConcInit ==
    /\ c_cwd = LaunchDir /\ c_environ = FALSE
    /\ c_cache = [k \in Subreddits |-> FALSE]
    /\ c_pc = [s \in Sessions |-> "out"]
    /\ c_subreddit = [s \in Sessions |-> "penpals"]
    /\ c_original = [s \in Sessions |-> LaunchDir]
    /\ c_calls = 0

\* st.cache_data computes a missing value under the lock of its key: a session
\* is in _fetch_from_api(subreddit) only while no other session is.
KeyLockFree(subreddit) ==
    \A t \in Sessions : c_pc[t] = "out" \/ c_subreddit[t] # subreddit

\* fetch_reddit_data(subreddit) misses the cache and _fetch_from_api begins:
\* original_cwd = os.getcwd()
ApiGetCwd(s, subreddit) ==
    /\ c_pc[s] = "out"
    /\ c_calls < MaxApiCalls
    /\ ~c_cache[subreddit]
    /\ KeyLockFree(subreddit)
    /\ c_subreddit' = [c_subreddit EXCEPT ![s] = subreddit]
    /\ c_original' = [c_original EXCEPT ![s] = c_cwd]
    /\ c_pc' = [c_pc EXCEPT ![s] = "chdir"]
    /\ c_calls' = c_calls + 1
    /\ UNCHANGED <<c_cwd, c_environ, c_cache>>

\* os.chdir(script_dir)
ApiChdir(s) ==
    /\ c_pc[s] = "chdir"
    /\ c_cwd' = ScriptDir
    /\ c_pc' = [c_pc EXCEPT ![s] = "load_env"]
    /\ UNCHANGED <<c_environ, c_cache, c_subreddit, c_original, c_calls>>

\* load_env(): os.environ[...] = ...
ApiLoadEnv(s) ==
    /\ c_pc[s] = "load_env"
    /\ c_environ' = TRUE
    /\ c_pc' = [c_pc EXCEPT ![s] = "fetch"]
    /\ UNCHANGED <<c_cwd, c_cache, c_subreddit, c_original, c_calls>>

\* The rest of the try block, or the except branch: os.chdir(original_cwd), and
\* the frame is returned, which st.cache_data stores, or the exception raised.
ApiLeave(s) ==
    /\ c_pc[s] = "fetch"
    /\ c_cwd' = c_original[s]
    /\ \E returned \in BOOLEAN :
          c_cache' = [c_cache EXCEPT ![c_subreddit[s]] = returned]
    /\ c_pc' = [c_pc EXCEPT ![s] = "out"]
    /\ UNCHANGED <<c_environ, c_subreddit, c_original, c_calls>>

\* The ttl of an entry passes.
EntryExpires(subreddit) ==
    /\ c_cache[subreddit]
    /\ c_cache' = [c_cache EXCEPT ![subreddit] = FALSE]
    /\ UNCHANGED <<c_cwd, c_environ, c_pc, c_subreddit, c_original, c_calls>>

GetCwd ==
    /\ \E s \in Sessions, subreddit \in Subreddits : ApiGetCwd(s, subreddit)
    /\ UNCHANGED <<dvars, fvars, avars, mvars, svars, pvars, rvars, lvars, hvars>>

Chdir ==
    /\ \E s \in Sessions : ApiChdir(s)
    /\ UNCHANGED <<dvars, fvars, avars, mvars, svars, pvars, rvars, lvars, hvars>>

LoadEnv ==
    /\ \E s \in Sessions : ApiLoadEnv(s)
    /\ UNCHANGED <<dvars, fvars, avars, mvars, svars, pvars, rvars, lvars, hvars>>

Leave ==
    /\ \E s \in Sessions : ApiLeave(s)
    /\ UNCHANGED <<dvars, fvars, avars, mvars, svars, pvars, rvars, lvars, hvars>>

Expire ==
    /\ \E subreddit \in Subreddits : EntryExpires(subreddit)
    /\ UNCHANGED <<dvars, fvars, avars, mvars, svars, pvars, rvars, lvars, hvars>>

\* ----------------------------------------------------------------------
\* utils/text_processing.py: highlight_keywords_in_text, and the display of a
\* post by streamlit_app.py: display_subreddit_results
\* ----------------------------------------------------------------------
\* f":violet-badge[{original_word}]"
Replacement(original_word) ==
    <<":", "v", "i", "o", "l", "e", "t", "-", "b", "a", "d", "g", "e", "[">> \o original_word \o <<"]">>

\* The length of the pattern's match from position i, where it matches: the
\* alternatives of (?:ing|ed|er|s|ly)? are tried in their order, then nothing.
MatchLength(text, i, word) ==
    IF Len(word) >= 4
    THEN LET fits(k) == /\ LiteralAt(text, i + Len(word), Suffixes[k])
                        /\ WordBoundary(text, i + Len(word) + Len(Suffixes[k]))
             first == CHOOSE k \in DOMAIN Suffixes :
                         fits(k) /\ \A j \in 1..(k - 1) : ~fits(j)
         IN  Len(word) + Len(Suffixes[first])
    ELSE Len(word)

RECURSIVE ReSubFrom(_, _, _)
\* re.sub from position i on: the leftmost matches, none overlapping another,
\* each replaced by its badge; the lookbehind reads the text as it was.
ReSubFrom(text, i, word) ==
    IF i > Len(text) THEN <<>>
    ELSE IF PatternMatchesAt(text, i, word)
    THEN LET n == MatchLength(text, i, word)
         IN  Replacement(SubSeq(text, i, i + n - 1)) \o ReSubFrom(text, i + n, word)
    ELSE <<text[i]>> \o ReSubFrom(text, i + 1, word)

\* re.sub(pattern, replacement, highlighted_text, flags=re.IGNORECASE)
ReSub(text, word) == ReSubFrom(text, 1, word)

RECURSIVE HighlightWords(_, _)
\* for word in sorted(words_to_highlight, key=len, reverse=True): the longest
\* words first, words of one length in the order the set gives them, which is
\* any. The texts that can result.
HighlightWords(highlighted_text, words) ==
    IF words = {} THEN {highlighted_text}
    ELSE LET longest == {w \in words : \A v \in words : Len(v) <= Len(w)}
         IN  UNION { HighlightWords(ReSub(highlighted_text, word), words \ {word}) :
                     word \in longest }

\* highlight_keywords_in_text(text, keywords): the texts it can return
HighlightKeywordsInText(text, keywords) ==
    IF text = <<>> \/ keywords = <<>>
    THEN {text}
    ELSE HighlightWords(text, WithoutStopWords(WordsOfKeywords(keywords)))

\* pd.notna(body) and str(body).strip() and str(body).strip() != 'nan'
BodyShown(body) == Strip(body) # <<>> /\ Strip(body) # <<"n", "a", "n">>

\* "**Content:** *No content available*"
NoContent == [highlighted |-> FALSE, text |-> <<>>]

\* The posts and keyword lists shown.
HighlightPosts == SamplePosts \cup {
    [title |-> <<"I", " ", "h", "a", "v", "e", " ", "a">>,
     body |-> <<"c", "a", "t", "s", " ", "a", "r", "e", " ", "n", "i", "c", "e">>],
    [title |-> <<"w", "h", "a", "t", " ", "i", "s">>,
     body |-> <<"i", "t">>],
    [title |-> <<"a", " ", "c", "a", "t">>,
     body |-> <<"p", "u", "r", "r", "s">>],
    [title |-> <<"g", "o", "l", "f", "i", "n", "g">>,
     body |-> <<"g", "o", "l", "f">>],
    [title |-> <<"p", "e", "n", " ", "p", "a", "l">>,
     body |-> <<" ", " ">>],
    [title |-> <<"h", "e", "l", "l", "o">>,
     body |-> <<"n", "a", "n">>],
    [title |-> <<"m", "e", "e", "t", " ", "a", "t", " ", "n", "o", "o", "n">>,
     body |-> <<"t", "h", "a", "t", " ", "i", "s", " ", "i", "t">>],
    [title |-> <<"t", "r", "a", "v", "e", "l", " ", "b", "u", "d", "d", "y">>,
     body |-> <<"t", "r", "a", "v", "e", "l", "s", " ", "a", "n", "d", " ", "c", "a", "t", "s">>]}

HighlightKeywords == SampleKeywords \cup {
    <<<<"a", " ", "c", "a", "t">>>>,
    <<<<"i", "s", " ", "i", "t">>>>,
    <<<<"n", "a", "n">>>>,
    <<<<"g", "o", "l", "f">>, <<"g", "o", "l", "f", "i", "n", "g">>>>,
    <<<<"p", "e", "n", " ", "p", "a", "l">>>>,
    <<<<"c", "a", "t">>, <<"t", "r", "a", "v", "e", "l">>>>}

HighlightIdle ==
    /\ h_row = [title |-> <<>>, body |-> <<>>] /\ h_keywords = <<>>
    /\ h_passes = FALSE /\ h_title = <<>> /\ h_body = NoContent /\ h_pc = "idle"

HighlightInit ==
    /\ h_row \in HighlightPosts /\ h_keywords \in HighlightKeywords
    /\ h_passes = FALSE /\ h_title = <<>> /\ h_body = NoContent /\ h_pc = "input"

\* "Apply keyword filtering if keywords are provided", with no age range set
FilterPost ==
    /\ h_pc = "input"
    /\ h_passes' = (RelevantPosts(<<h_row>>, h_keywords, <<>>) # {})
    /\ h_pc' = "filtered"
    /\ UNCHANGED <<h_row, h_keywords, h_title, h_body>>
    /\ UNCHANGED <<dvars, fvars, avars, mvars, svars, pvars, rvars, lvars, cvars>>

\* for _, row in page_posts.iterrows(): the header and the body of a post that
\* passed the filter
DisplayPost ==
    /\ h_pc = "filtered"
    /\ h_passes
    /\ h_title' \in IF h_keywords # <<>>
                    THEN HighlightKeywordsInText(h_row.title, h_keywords)
                    ELSE {h_row.title}
    /\ IF BodyShown(h_row.body)
       THEN \E highlighted_body \in
                  IF h_keywords # <<>>
                  THEN HighlightKeywordsInText(h_row.body, h_keywords)
                  ELSE {h_row.body} :
               h_body' = [highlighted |-> TRUE, text |-> highlighted_body]
       ELSE h_body' = NoContent
    /\ h_pc' = "shown"
    /\ UNCHANGED <<h_row, h_keywords, h_passes>>
    /\ UNCHANGED <<dvars, fvars, avars, mvars, svars, pvars, rvars, lvars, cvars>>

\* ----------------------------------------------------------------------
\* Specifications
\* ----------------------------------------------------------------------
InitDedup ==
    /\ DedupInit /\ FetchIdle /\ AppIdle /\ MatchIdle /\ SortIdle /\ PageIdle
    /\ RecencyIdle /\ LoadIdle /\ ConcIdle /\ HighlightIdle

NextDedup == Deduplicate

SpecDedup == InitDedup /\ [][NextDedup]_vars

InitFetch ==
    /\ FetchInit /\ DedupIdle /\ AppIdle /\ MatchIdle /\ SortIdle /\ PageIdle
    /\ RecencyIdle /\ LoadIdle /\ ConcIdle /\ HighlightIdle

NextFetch == FetchBegin \/ FetchLoop \/ FetchReturn

SpecFetch == InitFetch /\ [][NextFetch]_vars

InitFetchAny ==
    /\ FetchAnyInit /\ DedupIdle /\ AppIdle /\ MatchIdle /\ SortIdle /\ PageIdle
    /\ RecencyIdle /\ LoadIdle /\ ConcIdle /\ HighlightIdle

NextFetchAny == FetchBegin \/ FetchLoopAny \/ FetchReturn

\* Every _fetch_batch call returns or raises, and the thread goes on running.
SpecFetchAny == InitFetchAny /\ [][NextFetchAny]_vars /\ WF_vars(NextFetchAny)

InitApp ==
    /\ AppInit /\ DedupIdle /\ FetchIdle /\ MatchIdle /\ SortIdle /\ PageIdle
    /\ RecencyIdle /\ LoadIdle /\ ConcIdle /\ HighlightIdle

NextApp ==
    \/ Rerun
    \/ UserInteracts
    \/ UserRetry
    \/ HandleFetchData
    \/ NetworkFails
    \/ NetworkReturns
    \/ UserInterrupts
    \/ Tick
    \/ NewSession

SpecApp == InitApp /\ [][NextApp]_vars

InitMatch ==
    /\ MatchInit /\ DedupIdle /\ FetchIdle /\ AppIdle /\ SortIdle /\ PageIdle
    /\ RecencyIdle /\ LoadIdle /\ ConcIdle /\ HighlightIdle

NextMatch == FilterByKeywords

SpecMatch == InitMatch /\ [][NextMatch]_vars

InitSort ==
    /\ SortInit /\ DedupIdle /\ FetchIdle /\ AppIdle /\ MatchIdle /\ PageIdle
    /\ RecencyIdle /\ LoadIdle /\ ConcIdle /\ HighlightIdle

NextSort == Sort

SpecSort == InitSort /\ [][NextSort]_vars

InitPage ==
    /\ PageInit /\ DedupIdle /\ FetchIdle /\ AppIdle /\ MatchIdle /\ SortIdle
    /\ RecencyIdle /\ LoadIdle /\ ConcIdle /\ HighlightIdle

NextPage == DisplayPage \/ SelectPage \/ ChangeFilters

SpecPage == InitPage /\ [][NextPage]_vars

InitRecency ==
    /\ RecencyInit /\ DedupIdle /\ FetchIdle /\ AppIdle /\ MatchIdle
    /\ SortIdle /\ PageIdle /\ LoadIdle /\ ConcIdle /\ HighlightIdle

NextRecency == FilterRecency

SpecRecency == InitRecency /\ [][NextRecency]_vars

InitLoad ==
    /\ LoadInit /\ DedupIdle /\ FetchIdle /\ AppIdle /\ MatchIdle /\ SortIdle
    /\ PageIdle /\ RecencyIdle /\ ConcIdle /\ HighlightIdle

NextLoad ==
    \/ FetchRedditData
    \/ FromApiBegin
    \/ FetchBegin
    \/ FetchLoop
    \/ FetchReturn
    \/ FromApiEnd
    \/ CacheExpires

SpecLoad == InitLoad /\ [][NextLoad]_vars

InitConc ==
    /\ ConcInit /\ DedupIdle /\ FetchIdle /\ AppIdle /\ MatchIdle /\ SortIdle
    /\ PageIdle /\ RecencyIdle /\ LoadIdle /\ HighlightIdle

NextConc == GetCwd \/ Chdir \/ LoadEnv \/ Leave \/ Expire

SpecConc == InitConc /\ [][NextConc]_vars

InitHighlight ==
    /\ HighlightInit /\ DedupIdle /\ FetchIdle /\ AppIdle /\ MatchIdle /\ SortIdle
    /\ PageIdle /\ RecencyIdle /\ LoadIdle /\ ConcIdle

NextHighlight == FilterPost \/ DisplayPost

SpecHighlight == InitHighlight /\ [][NextHighlight]_vars

\* ----------------------------------------------------------------------
\* Claims
\* ----------------------------------------------------------------------
RowsOf(df, a) == {i \in DOMAIN df : df[i].author = a}

\* C1: of every author other than '[deleted]' the deduplication keeps exactly
\* one post, one of that author's posts with the maximum creation time; every
\* post of '[deleted]' is kept, so N such posts in give N out.
C1_DedupKeepsLatestPerAuthorAndAllDeleted ==
    d_pc = "done" =>
        /\ \A a \in Authors \ {Deleted} :
              RowsOf(d_df, a) # {} =>
                 /\ Cardinality(RowsOf(d_out, a)) = 1
                 /\ \A j \in RowsOf(d_out, a) :
                       /\ d_out[j] \in Range(d_df)
                       /\ d_out[j].created_time =
                            SetMax({d_df[i].created_time : i \in RowsOf(d_df, a)})
        /\ \A a \in Authors \ {Deleted} : RowsOf(d_df, a) = {} => RowsOf(d_out, a) = {}
        /\ Cardinality(RowsOf(d_out, Deleted)) = Cardinality(RowsOf(d_df, Deleted))
        /\ \A i \in RowsOf(d_df, Deleted) : d_df[i] \in Range(d_out)

\* C1 witness: an author with an older and a newer post, the older one first,
\* beside a '[deleted]' post, after the call.
C1_Witness ==
    /\ d_pc = "done"
    /\ Cardinality(RowsOf(d_df, Deleted)) >= 1
    /\ \E i, j \in DOMAIN d_df :
          /\ i < j
          /\ d_df[i].author = "alice" /\ d_df[j].author = "alice"
          /\ d_df[i].created_time < d_df[j].created_time

\* ------------------------------------------------------------------ fetch
RECURSIVE Flatten(_)
Flatten(ss) == IF ss = <<>> THEN <<>> ELSE Head(ss) \o Flatten(Tail(ss))

ItemsOf(log, k) == Flatten([i \in 1..k |-> log[i].items])

\* C2: once a batch has returned a null cursor, or the requested total has been
\* collected, or a batch has returned no items, no further batch request is
\* issued: every request but the last was followed by another for none of these.
C2_NoRequestAfterStop ==
    \A i \in 1..(Len(f_log) - 1) :
        /\ f_log[i].next_after # None
        /\ f_log[i].items # <<>>
        /\ Len(ItemsOf(f_log, i)) < f_total

\* C7: when a batch request fails after k batches have succeeded, the call
\* returns (no error) exactly the posts of those k batches, in order; the failed
\* call is an empty batch with a null cursor and the last request of the fetch.
C7_FailedBatchEndsPagination ==
    \A i \in DOMAIN f_log :
        f_log[i].failed =>
            /\ f_log[i].items = <<>> /\ f_log[i].next_after = None
            /\ i = Len(f_log)
            /\ f_pc \in {"break", "done"}
            /\ f_pc = "done" => f_final = ItemsOf(f_log, i - 1)

\* C7 witness: a fetch that returned after two batches succeeded and the third
\* request failed.
C7_Witness ==
    /\ f_pc = "done"
    /\ Len(f_log) = 3
    /\ f_log[3].failed
    /\ Len(f_final) >= 2

\* ------------------------------------------------------------------- app
\* C3: after a fetch attempt has ended in failure, handle_fetch_data is not
\* called again in that session before the user asks for it (Retry Fetch):
\* script reruns alone start no attempt.
C3_NoAttemptAfterFailureUnasked == a_pc = "handle_fetch" => ~a_failed

\* C4: a call of fetch_reddit_data less than 20 minutes after the entry of its
\* subreddit was stored returns that entry with no network fetch; a call more
\* than 20 minutes after it fetches anew and returns the new frame.
C4_CacheServesForTwentyMinutes ==
    \A s \in Subreddits :
        LET l == a_lookup[s]
        IN  (l.at # NoValue /\ l.entry # NoValue) =>
               /\ l.at - l.entry < 20 => l.hit /\ l.returned = l.entry
               /\ l.at - l.entry > 20 =>
                     /\ ~l.hit
                     /\ l.returned # NoValue => l.returned >= l.at
               /\ l.hit => l.returned = l.entry

\* C4 witness: an attempt that has just stored its frames after it found the
\* r/penpals entry 21 minutes old and fetched anew, and was served the
\* r/penpalsover30 entry at 19 minutes.
C4_Witness ==
    /\ a_pc = "rerun"
    /\ a_ss.has_fetched_data
    /\ a_lookup["penpals"].entry # NoValue
    /\ a_lookup["penpals"].at - a_lookup["penpals"].entry = 21
    /\ ~a_lookup["penpals"].hit
    /\ a_lookup["penpalsover30"].entry # NoValue
    /\ a_lookup["penpalsover30"].at - a_lookup["penpalsover30"].entry = 19
    /\ a_lookup["penpalsover30"].hit
    /\ a_ss.fetched_data_penpalsover30 = a_lookup["penpalsover30"].entry

\* C5: a fetch attempt never runs longer than 3 minutes: no fetch is in progress
\* more than 3 minutes after its attempt started.
C5_AttemptBoundedByTimeout ==
    a_pc \in Fetching => a_clock - a_ss.fetch_start_time <= 3
\* ----------------------------------------------------------------- match
\* The texts the claims name.
TxtTravel == <<"t", "r", "a", "v", "e", "l">>

TxtAt == <<"a", "t">>

TxtCat == <<"c", "a", "t">>

TxtGolf == <<"g", "o", "l", "f">>

Txt25FTravelBuddy == <<"2", "5", "F", " ", "t", "r", "a", "v", "e", "l", " ", "b", "u", "d", "d", "y">>

TxtTravelBuddy == <<"t", "r", "a", "v", "e", "l", " ", "b", "u", "d", "d", "y">>

Txt25FSeekingFriend == <<"2", "5", "F", " ", "s", "e", "e", "k", "i", "n", "g", " ", "f", "r", "i", "e", "n", "d">>

TxtMeetAtNoon == <<"m", "e", "e", "t", " ", "a", "t", " ", "n", "o", "o", "n">>

TxtGolfing == <<"g", "o", "l", "f", "i", "n", "g">>

TxtGolfed == <<"g", "o", "l", "f", "e", "d">>

TxtGolfer == <<"g", "o", "l", "f", "e", "r">>

TxtGolfs == <<"g", "o", "l", "f", "s">>

TxtGolfly == <<"g", "o", "l", "f", "l", "y">>

TxtGolfcart == <<"g", "o", "l", "f", "c", "a", "r", "t">>

TxtMongolf == <<"m", "o", "n", "g", "o", "l", "f">>

Filtered == m_pc = "filtered"

NoAgeRange == m_age_range = <<18, 99>>

Kept(i) == i \in m_relevant

\* C6: with keywords ["travel"] and age range [25,25] the filter keeps the post
\* titled "25F travel buddy" with empty body and rejects the posts titled
\* "travel buddy" and "25F seeking friend".
C6_TravelAt25Example ==
    (Filtered /\ m_keywords = <<TxtTravel>> /\ m_age_range = <<25, 25>>) =>
        \A i \in DOMAIN m_posts :
            /\ (m_posts[i].title = Txt25FTravelBuddy /\ m_posts[i].body = <<>>) => Kept(i)
            /\ m_posts[i].title = TxtTravelBuddy => ~Kept(i)
            /\ m_posts[i].title = Txt25FSeekingFriend => ~Kept(i)

\* The tokens of a text: its maximal runs of word characters, in lower case.
RECURSIVE TokensFrom(_, _)
TokensFrom(s, token) ==
    LET done == IF token = <<>> THEN {} ELSE {token}
    IN  IF s = <<>> THEN done
        ELSE IF IsWordChar(Head(s))
        THEN TokensFrom(Tail(s), Append(token, Lower(Head(s))))
        ELSE done \cup TokensFrom(Tail(s), <<>>)

Tokens(text) == TokensFrom(text, <<>>)

OccursBounded(text, i, v) ==
    LET last == i + Len(v) - 1
    IN  /\ last <= Len(text)
        /\ SubSeq(LowerStr(text), i, last) = LowerStr(v)
        /\ i > 1 => ~IsWordChar(text[i - 1])
        /\ IsWordChar(text[last]) # (last < Len(text) /\ IsWordChar(text[last + 1]))

Variants(w) ==
    {w, w \o <<"i", "n", "g">>, w \o <<"e", "d">>, w \o <<"e", "r">>, w \o <<"s">>,
     w \o <<"l", "y">>}

C10_CombinationPolicy ==
    Filtered =>
        LET age_keywords == AgeKeywords(m_age_range[1], m_age_range[2])
            text(i) == m_posts[i].title \o <<" ">> \o m_posts[i].body
            regular(i) == RegularMatch(m_keywords, text(i))
            age(i) == AgeMatch(age_keywords, m_posts[i].title)
        IN  \A i \in DOMAIN m_posts :
               /\ (m_keywords # <<>> /\ age_keywords # <<>>) =>
                     (Kept(i) <=> (regular(i) /\ age(i)))
               /\ (m_keywords # <<>> /\ age_keywords = <<>>) => (Kept(i) <=> regular(i))
               /\ (m_keywords = <<>> /\ age_keywords # <<>>) => (Kept(i) <=> age(i))
               /\ (m_keywords = <<>> /\ age_keywords = <<>>) => Kept(i)

\* C10 witness: both lists given; a post with the keyword in its title and the
\* age in its body only is rejected, a post with the age in its title and the
\* keyword in its body is kept.
C10_Witness ==
    /\ Filtered /\ m_keywords = <<TxtTravel>> /\ m_age_range = <<25, 25>>
    /\ \E i, j \in DOMAIN m_posts :
          /\ m_posts[i].title = TxtTravel /\ m_posts[i].body = <<"2", "5">> /\ ~Kept(i)
          /\ m_posts[j].title = <<"h", "i", " ", "2", "5">> /\ Kept(j)

\* ------------------------------------------------------------------- sort
TitlesOf(df) == [i \in DOMAIN df |-> df[i].title]

Txt25FHello == <<"[", "2", "5", "F", "]", " ", "h", "e", "l", "l", "o">>

TxtAppleSeeksFriend == <<"A", "p", "p", "l", "e", " ", "s", "e", "e", "k", "s", " ", "f", "r", "i", "e", "n", "d">>

SortedByTitle == s_pc = "done" /\ s_option = "Title Alphabetically"

\* The frame sorted holds the two posts titled "[25F] hello" and "Apple seeks
\* friend", in either order.
TheTwoTitles ==
    /\ Len(s_df) = 2
    /\ Range(TitlesOf(s_df)) = {Txt25FHello, TxtAppleSeeksFriend}

\* C11 as stated: sorting by title the posts titled "[25F] hello" and "Apple
\* seeks friend" gives the order "Apple seeks friend", "[25F] hello".
C11_AppleBefore25F ==
    (SortedByTitle /\ TheTwoTitles) =>
        TitlesOf(s_out) = <<TxtAppleSeeksFriend, Txt25FHello>>

\* C11 as amended: only the leading "[" is skipped, so the keys compared are
\* "25f] hello" and "apple seeks friend", and "[25F] hello" comes first, a
\* digit sorting before a letter.
C11_25FBeforeApple ==
    (SortedByTitle /\ TheTwoTitles) =>
        /\ TitlesOf(s_out) = <<Txt25FHello, TxtAppleSeeksFriend>>
        /\ GetSortKey(Txt25FHello) = <<"2", "5", "f", "]", " ", "h", "e", "l", "l", "o">>
        /\ GetSortKey(TxtAppleSeeksFriend) = <<"a", "p", "p", "l", "e", " ", "s", "e", "e", "k", "s", " ", "f", "r", "i", "e", "n", "d">>

\* C11 witness: the two posts, "Apple seeks friend" first, have been sorted by
\* title.
C11_Witness ==
    /\ SortedByTitle
    /\ TitlesOf(s_df) = <<TxtAppleSeeksFriend, Txt25FHello>>

\* C12: sorted by title, every post whose title is missing comes after every
\* post that has a title.
C12_MissingTitlesLast ==
    SortedByTitle =>
        \A i, j \in DOMAIN s_out :
            (s_out[i].title = NaN /\ s_out[j].title # NaN) => i > j

\* ------------------------------------------------------------- pagination
\* The slice of the last page of total posts.
LastPageSlice(total) ==
    [start_idx |-> ((total - 1) \div 100) * 100, end_idx |-> total]

\* C13: with total >= 1 posts and pages of 100, a run that finds a stored page
\* index above (total - 1) div 100 stores that last index instead and displays
\* the last page's slice; with 250 posts, index 5 gives the slice that index 2
\* gives. The slice displayed is always within the posts.
C13_PageIndexClamped ==
    /\ (p_pc \in {"shown", "rerun"} /\ p_total >= 1
        /\ p_stored > (p_total - 1) \div 100) =>
          /\ p_pc = "shown"
          /\ p_page = (p_total - 1) \div 100
          /\ p_slice = LastPageSlice(p_total)
    /\ (p_pc = "shown" /\ p_total = 250 /\ p_stored \in {2, 5}) =>
          p_slice = [start_idx |-> 200, end_idx |-> 250]
    /\ (p_pc = "shown" /\ p_total >= 1) =>
          /\ 0 <= p_slice.start_idx /\ p_slice.start_idx < p_slice.end_idx
          /\ p_slice.end_idx <= p_total

\* C13 witness: 250 posts are displayed by a run that found page index 5 stored.
C13_Witness ==
    /\ p_pc = "shown" /\ p_total = 250 /\ p_stored = 5
    /\ p_slice = [start_idx |-> 200, end_idx |-> 250]

\* ---------------------------------------------------------------- recency
\* The date of the row cannot be parsed: the field the date is read from,
\* created_time or, when that is None or empty, created_utc, holds no value
\* that parses.
DateCannotBeParsed(row) ==
    IF row.created_time.kind = "None" THEN row.created_utc.kind # "date"
    ELSE row.created_time.kind # "date"

\* C14: filter_posts_by_recency keeps every post whose date cannot be parsed,
\* under each of the settings Today, Last week, Last month and No filter.
C14_UnparsableDateKept ==
    (r_pc = "done" /\ r_filter \in {"Today", "Last week", "Last month", "No filter"}) =>
        \A i \in DOMAIN r_df : DateCannotBeParsed(r_df[i]) => i \in r_out

\* C14 witness: under Today a post whose created_time does not parse is kept
\* beside a post of 31 days ago that is dropped.
C14_Witness ==
    /\ r_pc = "done" /\ r_filter = "Today"
    /\ \E i, j \in DOMAIN r_df :
          /\ r_df[i].created_time.kind = "bad" /\ i \in r_out
          /\ r_df[j].created_time = DateField("date", 31) /\ j \notin r_out

\* ------------------------------------------------------------------ dedup
\* C15: applying filter_deleted_and_deduplicate_users to its own output returns
\* that output unchanged: the same posts in the same order.
C15_DedupIdempotent ==
    d_pc = "done" => FilterDeletedAndDeduplicateUsers(d_out) = {d_out}

\* C20: when several posts of one author other than '[deleted]' have equal
\* creation times, the deduplication keeps of them only one that comes first in
\* the input: a post that follows in the input another post of its author with
\* the same creation time is never kept.
C20_TiesKeepFirstOfInput ==
    d_pc = "done" =>
        \A a \in Authors \ {Deleted} :
            \A i, j \in RowsOf(d_df, a) :
                (i < j /\ d_df[i].created_time = d_df[j].created_time) =>
                    d_df[j] \notin Range(d_out)

\* ------------------------------------------------------------- rate limit
\* C16: within one fetch the rate-limit delay is slept between every two
\* consecutive batch requests, and not after the last batch request.
C16_DelayBetweenBatchesOnly ==
    /\ \A i \in 1..(Len(f_log) - 1) : f_log[i].slept
    /\ (f_pc = "done" /\ f_log # <<>>) => ~f_log[Len(f_log)].slept

\* ------------------------------------------------------------------- load
\* C17: the frame a fetch for a subreddit returns (pagination, then
\* deduplication) holds no two posts with the same id; the listing of the model
\* repeats no id within a page or across the pages its cursors lead to.
C17_ResultIdsUnique ==
    l_pc = "returned" =>
        \A i, j \in DOMAIN l_result.df :
            l_result.df[i].id = l_result.df[j].id => i = j

\* C18: an attempt that collects zero posts ends in an error: fetch_reddit_data
\* returns no frame and nothing is cached, and the call that follows a raised
\* call is no cache hit, so it goes to the network again.
C18_ZeroPostsIsAnError ==
    /\ (l_pc \in {"returned", "raised"} /\ f_pc = "done" /\ f_final = <<>>) =>
          /\ l_pc = "raised"
          /\ l_result.kind = "error" /\ l_result.df = NoFrame
          /\ ~l_cache.stored
          /\ LastCall.outcome = "raised"
    /\ \A i \in 1..(Len(l_log) - 1) :
          l_log[i].outcome = "raised" => ~l_log[i + 1].hit

\* C18 witness: a first call whose fetch collected zero posts was raised, and a
\* second call has authenticated and collected zero posts again.
C18_Witness ==
    /\ Len(l_log) = 2
    /\ l_log[1].auth = "ok" /\ l_log[1].outcome = "raised"
    /\ l_log[2].auth = "ok" /\ ~l_log[2].hit
    /\ l_pc = "raised" /\ f_pc = "done" /\ f_final = <<>>

\* C19: when authenticate() is refused, the call ends in the authentication
\* error with fetch_penpals_posts never called, so that no batch request is
\* made, and no posts are returned or cached.
C19_AuthFailureAbortsFetch ==
    (l_log # <<>> /\ LastCall.auth = "failed") =>
        /\ l_pc = "raised"
        /\ l_result = Raised("Failed to authenticate")
        /\ f_pc = "idle" /\ f_log = <<>> /\ f_final = <<>>
        /\ ~l_cache.stored

\* C19 witness: a call was refused at authenticate() after an earlier call had
\* returned a frame whose cache entry has expired.
C19_Witness ==
    /\ Len(l_log) = 2
    /\ l_log[1].outcome = "returned"
    /\ l_log[2].auth = "failed"
    /\ l_pc = "raised"

\* ------------------------------------------------------------ concurrency
\* C21: the fetches of two sessions, interleaved in any order, leave the
\* process's working directory as it was before the first of them began: with
\* no session in _fetch_from_api, it is the directory the app was started in.
C21_WorkingDirectoryRestored ==
    (\A s \in Sessions : c_pc[s] = "out") => c_cwd = LaunchDir

\* ------------------------------------------------------------ frame effect
StoredFields(ss) ==
    <<ss.fetched_data_penpals, ss.fetched_data_penpalsover30, ss.has_fetched_data>>

InHandleFetchData == a_pc \in {"handle_fetch"} \cup Fetching

\* A step of handle_fetch_data leaves the three fields as they were, or it is
\* the end of the try block and stores what the two calls returned.
AllOrNothing ==
    InHandleFetchData =>
        \/ StoredFields(a_ss') = StoredFields(a_ss)
        \/ /\ a_ss'.fetch_error = "None"
           /\ a_lookup'["penpals"].returned # NoValue
           /\ a_lookup'["penpalsover30"].returned # NoValue
           /\ StoredFields(a_ss') = <<a_lookup'["penpals"].returned,
                                      a_lookup'["penpalsover30"].returned, TRUE>>

\* C22: handle_fetch_data stores all or nothing: an attempt that fails or times
\* out, also one whose fetch of r/penpals succeeded, leaves fetched_data_penpals,
\* fetched_data_penpalsover30 and has_fetched_data as they were, and
\* has_fetched_data is true only with both datasets stored by one attempt.
C22_StoresAllOrNothing ==
    /\ [](a_ss.has_fetched_data <=>
              /\ a_ss.fetched_data_penpals # NoValue
              /\ a_ss.fetched_data_penpalsover30 # NoValue)
    /\ [](a_ss.fetched_data_penpals = NoValue <=>
              a_ss.fetched_data_penpalsover30 = NoValue)
    /\ [][AllOrNothing]_vars

\* r/penpals was fetched, the fetch of r/penpalsover30 then failed, and nothing
\* is stored.
C22_Witness ==
    /\ a_failed /\ a_ss.fetch_error = "error"
    /\ a_lookup["penpals"].returned # NoValue
    /\ a_lookup["penpalsover30"].at # NoValue
    /\ a_lookup["penpalsover30"].returned = NoValue
    /\ StoredFields(a_ss) = <<NoValue, NoValue, FALSE>>

\* ------------------------------------------------- termination, resources
RECURSIVE CollectedBefore(_, _)
\* len(all_posts) when request i was made
CollectedBefore(log, i) ==
    IF i <= 1 THEN 0 ELSE CollectedBefore(log, i - 1) + Len(log[i - 1].items)

\* C23: whatever the listing API answers, fetch_penpals_posts makes at most
\* total_posts + 1 batch requests, each asking for min(remaining, 100) posts
\* (MaxBatch in the model), returns at most total_posts posts, and ends.
C23_FetchBoundedAndEnds ==
    /\ [](/\ Len(f_log) <= f_total + 1
          /\ \A i \in 1..Len(f_log) :
                /\ f_total - CollectedBefore(f_log, i) >= 1
                /\ f_log[i].limit =
                       Min2(f_total - CollectedBefore(f_log, i), MaxBatch)
          /\ Len(f_final) <= f_total)
    /\ <>(f_pc = "done")

\* A fetch has ended short of total_posts after a batch with a null cursor that
\* the loop went on from, a batch with the cursor it was asked with, and a
\* failure.
C23_Witness ==
    /\ f_pc = "done" /\ Len(f_log) >= 4
    /\ f_log[Len(f_log)].failed
    /\ \E i \in 1..(Len(f_log) - 1) :
          f_log[i].items # <<>> /\ f_log[i].next_after = None
    /\ \E i \in 2..Len(f_log) :
          f_log[i].after = 1 /\ f_log[i].next_after = 1
    /\ Len(f_final) < f_total

\* ------------------------------------------------------------ equivalence
\* A marker was put into the title or into the body shown.
MarkerInserted ==
    \/ h_title # h_row.title
    \/ h_body.highlighted /\ h_body.text # h_row.body

\* The highlighting of the title or of the body can insert a marker.
MarkerPossible ==
    \/ \E t \in HighlightKeywordsInText(h_row.title, h_keywords) : t # h_row.title
    \/ \E t \in HighlightKeywordsInText(h_row.body, h_keywords) : t # h_row.body

\* C24: with keywords given, a post passes the free-text filter exactly if the
\* highlighting with the same keywords inserts a marker into its title or into
\* its body: a post shown has a marker, and a post filtered out would get none.
C24_FilterAgreesWithHighlight ==
    h_keywords # <<>> =>
        /\ h_pc = "shown" => MarkerInserted
        /\ h_pc = "filtered" /\ ~h_passes => ~MarkerPossible
====
